---- MODULE Spec2Model ----
(***************************************************************************)
(* Top-to-bottom runs of the chapters of the book:                         *)
(*   - "Reprojecting geographic data" (raster reprojection workflow),      *)
(*   - "Attribute data operations" (pandas / geopandas table operations),  *)
(*   - "Geometry operations" (geometry unions),                            *)
(*   - the names each document binds and reads, cell by cell.              *)
(* One behaviour is one run of one chapter on one set of input files.      *)
(* The library calls (rasterio, GDAL, PROJ, pandas) are modelled by what   *)
(* they do on small integer rasters and small tables.                      *)
(***************************************************************************)
EXTENDS Integers, Sequences, FiniteSets, TLC

VARIABLES chapter, pc, skew, files, handles, env, trace, tab, kernel

vars == <<chapter, pc, skew, files, handles, env, trace, tab, kernel>>

(***************************************************************************)
(* Bounds of the model.                                                    *)
(***************************************************************************)
\* width and height, in cells, of the two source rasters
SrcSize == 2
\* largest shear the change of CRS applies to the grid (0 = axis-aligned)
MaxSkew == 1

(***************************************************************************)
(* Integer helpers.                                                        *)
(***************************************************************************)
Min(S) == CHOOSE m \in S : \A n \in S : m <= n
Max(S) == CHOOSE m \in S : \A n \in S : m >= n
CeilDiv(n, d) == (n + d - 1) \div d
ISqrt(n) == CHOOSE r \in 0..n : r * r <= n /\ (r + 1) * (r + 1) > n
Range(s) == {s[i] : i \in DOMAIN s}

(***************************************************************************)
(* Rasters.  A band is a function from <<row, col>> to a cell value; a     *)
(* transform is the affine matrix (a, b, c, d, e, f) of a north-up grid:   *)
(* x = a*col + c, y = e*row + f with e < 0.                                *)
(***************************************************************************)
CellsOf(width, height) == (0..(height - 1)) \X (0..(width - 1))

\* a CRS as rasterio hands it around: the text 'EPSG:n' or a CRS object
CrsString(code) == [form |-> "string", epsg |-> code]
CrsObject(code) == [form |-> "object", epsg |-> code]
\* rasterio parses either form to the same CRS
CrsCode(crs) == crs.epsg

\* the land cover classes and the elevations of the sample rasters
Categories == {11, 21}
Elevations == {1000, 2000}

NlcdMeta ==
    [driver |-> "GTiff", dtype |-> "uint8", nodata |-> 255,
     width |-> SrcSize, height |-> SrcSize, count |-> 1,
     crs |-> CrsObject(26912),
     transform |-> [a |-> 4, b |-> 0, c |-> 0, d |-> 0, e |-> -4, f |-> 4 * SrcSize]]

SrtmMeta ==
    [driver |-> "GTiff", dtype |-> "uint16", nodata |-> 65535,
     width |-> SrcSize, height |-> SrcSize, count |-> 1,
     crs |-> CrsObject(4326),
     transform |-> [a |-> 2, b |-> 0, c |-> 0, d |-> 0, e |-> -2, f |-> 2 * SrcSize]]

NoMeta ==
    [driver |-> "", dtype |-> "", nodata |-> 0, width |-> 0, height |-> 0,
     count |-> 0, crs |-> CrsObject(0),
     transform |-> [a |-> 1, b |-> 0, c |-> 0, d |-> 0, e |-> -1, f |-> 0]]

NoFile == [exists |-> FALSE, meta |-> NoMeta, band |-> <<>>]

\* the elevation rasters tried: flat, or rising to the east
SrtmBands ==
    { [rc \in CellsOf(SrcSize, SrcSize) |-> lo + step * rc[2]] :
        lo \in Elevations, step \in {0, 100} }

\* bounds of a dataset: left, bottom, right, top
Bounds(meta) ==
    LET t == meta.transform
    IN  [left |-> t.c, bottom |-> t.f + t.e * meta.height,
         right |-> t.c + t.a * meta.width, top |-> t.f]

(***************************************************************************)
(* PROJ: the coordinate operation between two CRSs.  Between a projected   *)
(* and a geographic CRS the grid is sheared by `skew` (the convergence at  *)
(* the data's location); the inverse operation undoes it exactly.          *)
(***************************************************************************)
IsGeographic(code) == code = 4326

Transform(from, to, pt) ==
    IF from = to THEN pt
    ELSE IF IsGeographic(to) /\ ~IsGeographic(from)
         THEN <<pt[1] + skew * pt[2], pt[2]>>
    ELSE IF IsGeographic(from) /\ ~IsGeographic(to)
         THEN <<pt[1] - skew * pt[2], pt[2]>>
    ELSE pt

\* rasterio.warp.calculate_default_transform: the extent of the transformed
\* footprint, at the resolution that keeps the pixel count of the diagonal
calculate_default_transform(src_crs, dst_crs, width, height, b) ==
    LET from == CrsCode(src_crs)
        to == CrsCode(dst_crs)
        corners == { Transform(from, to, <<x, y>>) :
                        x \in {b.left, b.right}, y \in {b.bottom, b.top} }
        xmin == Min({p[1] : p \in corners})
        xmax == Max({p[1] : p \in corners})
        ymin == Min({p[2] : p \in corners})
        ymax == Max({p[2] : p \in corners})
        dx == xmax - xmin
        dy == ymax - ymin
        res == ISqrt((dx * dx + dy * dy) \div (width * width + height * height))
    IN  [transform |-> [a |-> res, b |-> 0, c |-> xmin, d |-> 0, e |-> -res, f |-> ymax],
         width |-> CeilDiv(dx, res),
         height |-> CeilDiv(dy, res)]

(***************************************************************************)
(* Resampling.  Points are in doubled coordinates, so that the centre of a *)
(* cell is an integer whatever the resolution.                             *)
(***************************************************************************)
Centre2(t, rc) == <<2 * t.c + t.a * (2 * rc[2] + 1), 2 * t.f + t.e * (2 * rc[1] + 1)>>

\* the cells of the source whose value may be used: inside, and not No Data
Valid(band, src_nodata, rc) == rc \in DOMAIN band /\ band[rc] # src_nodata

\* mean of the source cells around the point, weighted by closeness
Bilinear(band, t, src_nodata, dst_nodata, p2) ==
    LET numx == p2[1] - 2 * t.c - t.a
        denx == 2 * t.a
        numy == 2 * t.f - p2[2] + t.e
        deny == 2 * (0 - t.e)
        c0 == numx \div denx
        r0 == numy \div deny
        fx == numx % denx
        fy == numy % deny
        wgt == [rc \in {r0, r0 + 1} \X {c0, c0 + 1} |->
                  (IF rc[1] = r0 THEN deny - fy ELSE fy)
                * (IF rc[2] = c0 THEN denx - fx ELSE fx)]
        used == {rc \in DOMAIN wgt : wgt[rc] > 0 /\ Valid(band, src_nodata, rc)}
        RECURSIVE Sum(_, _)
        Sum(f, S) == IF S = {} THEN 0
                     ELSE LET x == CHOOSE y \in S : TRUE
                          IN  f[x] + Sum(f, S \ {x})
        total == Sum(wgt, used)
        inside == <<(p2[2] * (-1) + 2 * t.f) \div deny, (p2[1] - 2 * t.c) \div denx>>
    IN  IF inside \notin DOMAIN band \/ used = {} THEN dst_nodata
        ELSE Sum([rc \in used |-> wgt[rc] * band[rc]], used) \div total

\* mutation of Nearest: the value is averaged from the neighbours
NearestAveraged(band, t, src_nodata, dst_nodata, p2) ==
    Bilinear(band, t, src_nodata, dst_nodata, p2)

\* value of the one source cell the point falls in
Nearest(band, t, src_nodata, dst_nodata, p2) ==
    LET rc == <<(2 * t.f - p2[2]) \div (2 * (0 - t.e)), (p2[1] - 2 * t.c) \div (2 * t.a)>>
    IN  IF Valid(band, src_nodata, rc) THEN band[rc] ELSE dst_nodata

\* rasterio.warp.reproject of one band into a destination grid of the given size
reproject(band, src_nodata, src_transform, src_crs, dst_transform, dst_crs, dst, resampling) ==
    [rc \in CellsOf(dst.width, dst.height) |->
        LET q2 == Centre2(dst_transform, rc)
            p2 == Transform(CrsCode(dst_crs), CrsCode(src_crs), q2)
        IN  IF resampling = "nearest"
            THEN Nearest(band, src_transform, src_nodata, dst.nodata, p2)
            ELSE Bilinear(band, src_transform, src_nodata, dst.nodata, p2)]

(***************************************************************************)
(* Files and file connections.  A write-mode connection keeps the band in  *)
(* its buffer; the data reach the file when the connection is closed.      *)
(***************************************************************************)
Paths ==
    {"data/srtm.tif", "data/nlcd.tif", "output/nlcd_4326.tif",
     "output/nlcd_4326_2.tif", "output/srtm_32612.tif",
     "data/elev.tif", "data/landsat.tif"}

OutputPaths == {"output/nlcd_4326.tif", "output/nlcd_4326_2.tif", "output/srtm_32612.tif"}

\* rasterio.open(path): a read-mode connection to an existing file
OpenRead(path) ==
    [path |-> path, mode |-> "r", closed |-> FALSE, meta |-> files[path].meta, band |-> <<>>]

\* the profile a new dataset is created with: the CRS is parsed
Profile(kwargs) == [kwargs EXCEPT !.crs = CrsObject(CrsCode(@))]

\* rasterio.open(path, 'w', **kwargs): a write-mode connection to a new file
OpenWrite(path, kwargs) ==
    [path |-> path, mode |-> "w", closed |-> FALSE, meta |-> Profile(kwargs),
     band |-> [rc \in CellsOf(kwargs.width, kwargs.height) |-> kwargs.nodata]]

\* the file as it is on disk while its write-mode connection is open
Created(h) == [exists |-> TRUE, meta |-> h.meta, band |-> h.band]

\* the file as it is on disk once the connection is closed
Flushed(h) == [exists |-> TRUE, meta |-> h.meta, band |-> h.band]

\* mutation of DatasetMeta: the georeferencing is not read back
DatasetMetaNoTransform(h) == [h.meta EXCEPT !.transform = NoMeta.transform]

\* dataset.meta: a new dict built from the dataset's profile
DatasetMeta(h) == h.meta

\* dataset.read(1)
Read(h) == IF h.mode = "r" THEN files[h.path].band ELSE h.band

\* mutation of Update: the entries are set on a default profile, not on the copy
UpdateOfDefaults(dict, new) ==
    [k \in DOMAIN NoMeta |-> IF k \in DOMAIN new THEN new[k] ELSE NoMeta[k]]

\* dict.update(new) on a dict
Update(dict, new) ==
    [k \in DOMAIN dict \cup DOMAIN new |-> IF k \in DOMAIN new THEN new[k] ELSE dict[k]]

Event(op, path) == [op |-> op, path |-> path]

\* the kernel of a run that does not follow the names
NoKernel == [doc |-> "", next |-> 0, names |-> {}]

\* the tables of the kernel before any cell has run
NoTab ==
    [world |-> [columns |-> <<>>, index |-> <<>>, data |-> <<>>],
     x |-> [dtype |-> "int", values |-> <<>>],
     out_iloc |-> [columns |-> <<>>, index |-> <<>>, data |-> <<>>],
     world_agg3 |-> [columns |-> <<>>, index |-> <<>>, data |-> <<>>],
     world_agg4 |-> [columns |-> <<>>, index |-> <<>>, data |-> <<>>],
     coffee_data |-> [columns |-> <<>>, index |-> <<>>, data |-> <<>>],
     world_coffee |-> [columns |-> <<>>, index |-> <<>>, data |-> <<>>],
     out_merge |-> [columns |-> <<>>, index |-> <<>>, data |-> <<>>],
     out_join |-> [columns |-> <<>>, index |-> <<>>, data |-> <<>>],
     world2 |-> [columns |-> <<>>, index |-> <<>>, data |-> <<>>],
     new_names |-> <<>>,
     names |-> <<>>,
     us_states |-> [columns |-> <<>>, index |-> <<>>, data |-> <<>>],
     regions |-> [columns |-> <<>>, index |-> <<>>, data |-> <<>>],
     us_west |-> [columns |-> <<>>, index |-> <<>>, data |-> <<>>],
     us_west_union |-> {},
     sel |-> <<>>,
     texas |-> [columns |-> <<>>, index |-> <<>>, data |-> <<>>],
     texas_union |-> {}]

(***************************************************************************)
(* The reprojection chapter, cell by cell.                                 *)
(***************************************************************************)
\* mutation of ReprojCells: the result is opened before the connection is closed
ReprojCellsReadEarly ==
    <<"load", "dst_crs", "default_transform", "dst_kwargs", "open_dst_nlcd",
      "reproject_nlcd", "open_src_nlcd_4326", "close_dst_nlcd", "unique_src",
      "unique_dst", "open_template", "open_dst_nlcd_2", "reproject_nlcd_2",
      "close_dst_nlcd_2", "compare", "all", "srtm_transform", "srtm_kwargs",
      "open_dst_srtm", "reproject_srtm", "close_dst_srtm", "show_srtm", "done">>

\* the code cells (and, in the srtm cell, the statements) in source order
ReprojCells ==
    <<"load", "dst_crs", "default_transform", "dst_kwargs", "open_dst_nlcd",
      "reproject_nlcd", "close_dst_nlcd", "open_src_nlcd_4326", "unique_src",
      "unique_dst", "open_template", "open_dst_nlcd_2", "reproject_nlcd_2",
      "close_dst_nlcd_2", "compare", "all", "srtm_transform", "srtm_kwargs",
      "open_dst_srtm", "reproject_srtm", "close_dst_srtm", "show_srtm", "done">>

IndexOf(seq, x) == CHOOSE i \in DOMAIN seq : seq[i] = x

\* the cell that runs after `cell` in a top-to-bottom run
After(cells, cell) == cells[IndexOf(cells, cell) + 1]

At(cell) == chapter = "reproj" /\ pc = cell

Goto(cell) == pc' = After(ReprojCells, cell)

NoEnv ==
    [dst_crs |-> CrsString(0), dst_transform |-> NoMeta.transform,
     dst_width |-> 0, dst_height |-> 0, dst_kwargs |-> NoMeta,
     src_srtm |-> 0, src_nlcd |-> 0, dst_nlcd |-> 0, src_nlcd_4326 |-> 0,
     template |-> 0, dst_nlcd_2 |-> 0, dst_srtm |-> 0,
     out_unique_src |-> {}, out_unique_dst |-> {}, d |-> <<>>, out_all |-> FALSE]

InitReproj ==
    /\ chapter = "reproj"
    /\ pc = ReprojCells[1]
    /\ skew \in 0..MaxSkew
    /\ \E nlcd \in [CellsOf(SrcSize, SrcSize) -> Categories], srtm \in SrtmBands :
         files = [p \in Paths |->
                    IF p = "data/nlcd.tif"
                    THEN [exists |-> TRUE, meta |-> NlcdMeta, band |-> nlcd]
                    ELSE IF p = "data/srtm.tif"
                    THEN [exists |-> TRUE, meta |-> SrtmMeta, band |-> srtm]
                    ELSE NoFile]
    /\ handles = <<>>
    /\ env = NoEnv
    /\ trace = <<>>
    /\ tab = NoTab
    /\ kernel = NoKernel

\* src_srtm = rasterio.open('data/srtm.tif'); src_nlcd = rasterio.open('data/nlcd.tif')
Load ==
    /\ At("load")
    /\ files["data/srtm.tif"].exists /\ files["data/nlcd.tif"].exists
    /\ handles' = handles \o <<OpenRead("data/srtm.tif"), OpenRead("data/nlcd.tif")>>
    /\ env' = [env EXCEPT !.src_srtm = Len(handles) + 1, !.src_nlcd = Len(handles) + 2]
    /\ trace' = trace \o <<Event("open_r", "data/srtm.tif"), Event("open_r", "data/nlcd.tif")>>
    /\ Goto("load")
    /\ UNCHANGED <<chapter, kernel, skew, tab, files>>

\* dst_crs = 'EPSG:4326'
SetDstCrs ==
    /\ At("dst_crs")
    /\ env' = [env EXCEPT !.dst_crs = CrsString(4326)]
    /\ Goto("dst_crs")
    /\ UNCHANGED <<chapter, kernel, skew, tab, files, handles, trace>>

\* dst_transform, dst_width, dst_height = calculate_default_transform(src.crs, dst_crs, ...)
DefaultTransform(cell, src) ==
    /\ At(cell)
    /\ src # 0 /\ ~handles[src].closed
    /\ LET m == handles[src].meta
           r == calculate_default_transform(m.crs, env.dst_crs, m.width, m.height, Bounds(m))
       IN  env' = [env EXCEPT !.dst_transform = r.transform,
                              !.dst_width = r.width, !.dst_height = r.height]
    /\ Goto(cell)
    /\ UNCHANGED <<chapter, kernel, skew, tab, files, handles, trace>>

\* dst_kwargs = src.meta.copy(); dst_kwargs.update({'crs', 'transform', 'width', 'height'})
DstKwargs(cell, src) ==
    /\ At(cell)
    /\ src # 0
    /\ env' = [env EXCEPT !.dst_kwargs =
                 Update(DatasetMeta(handles[src]),
                        [crs |-> env.dst_crs, transform |-> env.dst_transform,
                         width |-> env.dst_width, height |-> env.dst_height])]
    /\ Goto(cell)
    /\ UNCHANGED <<chapter, kernel, skew, tab, files, handles, trace>>

\* name = rasterio.open(path, 'w', **kwargs)
OpenDst(cell, name, path, kwargs) ==
    /\ At(cell)
    /\ LET h == OpenWrite(path, kwargs)
       IN  /\ handles' = Append(handles, h)
           /\ files' = [files EXCEPT ![path] = Created(h)]
    /\ env' = [env EXCEPT ![name] = Len(handles) + 1]
    /\ trace' = Append(trace, Event("open_w", path))
    /\ Goto(cell)
    /\ UNCHANGED <<chapter, kernel, skew, tab>>

\* rasterio.warp.reproject(source=band(src, 1), destination=band(dst, 1), ...)
Reproject(cell, src, dst, dst_transform, dst_crs, resampling) ==
    /\ At(cell)
    /\ src # 0 /\ dst # 0
    /\ ~handles[src].closed
    /\ ~handles[dst].closed /\ handles[dst].mode = "w"
    /\ LET s == handles[src]
           t == handles[dst]
       IN  handles' = [handles EXCEPT ![dst].band =
                         reproject(Read(s), s.meta.nodata, s.meta.transform, s.meta.crs,
                                   dst_transform, dst_crs, t.meta, resampling)]
    /\ trace' = Append(trace, Event("reproject", handles[dst].path))
    /\ Goto(cell)
    /\ UNCHANGED <<chapter, kernel, skew, tab, files, env>>

\* mutation of Close: the data are flushed but the connection stays open
CloseLeavingOpen(cell, dst) ==
    /\ At(cell)
    /\ dst # 0
    /\ handles' = handles
    /\ files' = [files EXCEPT ![handles[dst].path] = Flushed(handles[dst])]
    /\ trace' = Append(trace, Event("close", handles[dst].path))
    /\ Goto(cell)
    /\ UNCHANGED <<chapter, kernel, skew, tab, env>>

\* dst.close()
Close(cell, dst) ==
    /\ At(cell)
    /\ dst # 0
    /\ handles' = [handles EXCEPT ![dst].closed = TRUE]
    /\ files' = IF handles[dst].mode = "w" /\ ~handles[dst].closed
                THEN [files EXCEPT ![handles[dst].path] = Flushed(handles[dst])]
                ELSE files
    /\ trace' = Append(trace, Event("close", handles[dst].path))
    /\ Goto(cell)
    /\ UNCHANGED <<chapter, kernel, skew, tab, env>>

\* name = rasterio.open(path)
OpenSrc(cell, name, path) ==
    /\ At(cell)
    /\ files[path].exists
    /\ handles' = Append(handles, OpenRead(path))
    /\ env' = [env EXCEPT ![name] = Len(handles) + 1]
    /\ trace' = Append(trace, Event("open_r", path))
    /\ Goto(cell)
    /\ UNCHANGED <<chapter, kernel, skew, tab, files>>

\* np.unique(src_nlcd.read(1))
UniqueSrc ==
    /\ At("unique_src")
    /\ env.src_nlcd # 0 /\ ~handles[env.src_nlcd].closed
    /\ env' = [env EXCEPT !.out_unique_src = Range(Read(handles[env.src_nlcd]))]
    /\ Goto("unique_src")
    /\ UNCHANGED <<chapter, kernel, skew, tab, files, handles, trace>>

\* np.unique(src_nlcd_4326.read(1))
UniqueDst ==
    /\ At("unique_dst")
    /\ env.src_nlcd_4326 # 0 /\ ~handles[env.src_nlcd_4326].closed
    /\ env' = [env EXCEPT !.out_unique_dst = Range(Read(handles[env.src_nlcd_4326]))]
    /\ Goto("unique_dst")
    /\ UNCHANGED <<chapter, kernel, skew, tab, files, handles, trace>>

\* d = rasterio.open('output/nlcd_4326.tif').read(1) == rasterio.open('output/nlcd_4326_2.tif').read(1)
Compare ==
    /\ At("compare")
    /\ files["output/nlcd_4326.tif"].exists /\ files["output/nlcd_4326_2.tif"].exists
    /\ LET a == OpenRead("output/nlcd_4326.tif")
           b == OpenRead("output/nlcd_4326_2.tif")
       IN  /\ handles' = handles \o <<a, b>>
           /\ DOMAIN Read(a) = DOMAIN Read(b)
           /\ env' = [env EXCEPT !.d = [rc \in DOMAIN Read(a) |-> Read(a)[rc] = Read(b)[rc]]]
    /\ trace' = trace \o <<Event("open_r", "output/nlcd_4326.tif"),
                           Event("open_r", "output/nlcd_4326_2.tif")>>
    /\ Goto("compare")
    /\ UNCHANGED <<chapter, kernel, skew, tab, files>>

\* np.all(d)
All ==
    /\ At("all")
    /\ env' = [env EXCEPT !.out_all = \A rc \in DOMAIN env.d : env.d[rc]]
    /\ Goto("all")
    /\ UNCHANGED <<chapter, kernel, skew, tab, files, handles, trace>>

\* dst_crs = 'EPSG:32612' and calculate_default_transform for srtm
SrtmTransform ==
    /\ At("srtm_transform")
    /\ env.src_srtm # 0
    /\ LET m == handles[env.src_srtm].meta
           crs == CrsString(32612)
           r == calculate_default_transform(m.crs, crs, m.width, m.height, Bounds(m))
       IN  env' = [env EXCEPT !.dst_crs = crs, !.dst_transform = r.transform,
                              !.dst_width = r.width, !.dst_height = r.height]
    /\ Goto("srtm_transform")
    /\ UNCHANGED <<chapter, kernel, skew, tab, files, handles, trace>>

\* show(rasterio.open('output/srtm_32612.tif'), ax=axes[1])
ShowSrtm ==
    /\ At("show_srtm")
    /\ files["output/srtm_32612.tif"].exists
    /\ handles' = Append(handles, OpenRead("output/srtm_32612.tif"))
    /\ trace' = Append(trace, Event("open_r", "output/srtm_32612.tif"))
    /\ Goto("show_srtm")
    /\ UNCHANGED <<chapter, kernel, skew, tab, files, env>>

NextReproj ==
    \/ Load
    \/ SetDstCrs
    \/ DefaultTransform("default_transform", env.src_nlcd)
    \/ DstKwargs("dst_kwargs", env.src_nlcd)
    \/ OpenDst("open_dst_nlcd", "dst_nlcd", "output/nlcd_4326.tif", env.dst_kwargs)
    \/ Reproject("reproject_nlcd", env.src_nlcd, env.dst_nlcd,
                 env.dst_transform, env.dst_crs, "nearest")
    \/ Close("close_dst_nlcd", env.dst_nlcd)
    \/ OpenSrc("open_src_nlcd_4326", "src_nlcd_4326", "output/nlcd_4326.tif")
    \/ UniqueSrc
    \/ UniqueDst
    \/ OpenSrc("open_template", "template", "output/nlcd_4326.tif")
    \/ OpenDst("open_dst_nlcd_2", "dst_nlcd_2", "output/nlcd_4326_2.tif",
               IF env.template = 0 THEN NoMeta ELSE DatasetMeta(handles[env.template]))
    \/ Reproject("reproject_nlcd_2", env.src_nlcd, env.dst_nlcd_2,
                 IF env.dst_nlcd_2 = 0 THEN NoMeta.transform
                 ELSE handles[env.dst_nlcd_2].meta.transform,
                 IF env.dst_nlcd_2 = 0 THEN NoMeta.crs
                 ELSE handles[env.dst_nlcd_2].meta.crs, "nearest")
    \/ Close("close_dst_nlcd_2", env.dst_nlcd_2)
    \/ Compare
    \/ All
    \/ SrtmTransform
    \/ DstKwargs("srtm_kwargs", env.src_srtm)
    \/ OpenDst("open_dst_srtm", "dst_srtm", "output/srtm_32612.tif", env.dst_kwargs)
    \/ Reproject("reproject_srtm", env.src_srtm, env.dst_srtm,
                 env.dst_transform, env.dst_crs, "bilinear")
    \/ Close("close_dst_srtm", env.dst_srtm)
    \/ ShowSrtm


(***************************************************************************)
(* Tables.  A (Geo)DataFrame is its column names, its row labels (index)   *)
(* and its rows, each row a sequence of values aligned with the columns.   *)
(* A text value that is pasted or split is a sequence of characters.       *)
(***************************************************************************)
NoFrame == [columns |-> <<>>, index |-> <<>>, data |-> <<>>]

\* np.nan in a numeric column (the values of the data are not negative)
NaN == 0 - 1

\* a RangeIndex: 0, 1, ..., n - 1
RangeIndex(n) == [i \in 1..n |-> i - 1]

RECURSIVE SeqOfSet(_)
\* the numbers of a set, ascending
SeqOfSet(S) == IF S = {} THEN <<>> ELSE <<Min(S)>> \o SeqOfSet(S \ {Min(S)})

RECURSIVE Flatten(_)
\* the concatenation of a sequence of sequences
Flatten(ss) == IF ss = <<>> THEN <<>> ELSE Head(ss) \o Flatten(Tail(ss))

\* the entries of seq at the positions pos (1-based), in that order
Take(seq, pos) == [i \in 1..Len(pos) |-> seq[pos[i]]]

HasCol(df, name) == name \in Range(df.columns)

\* df[name]: the values of the (first) column of that name
Column(df, name) == [i \in 1..Len(df.data) |-> df.data[i][IndexOf(df.columns, name)]]

\* df[name] = values: replaces the column, or appends it as the last one
SetColumn(df, name, values) ==
    IF HasCol(df, name)
    THEN [df EXCEPT !.data = [i \in 1..Len(df.data) |->
                                [df.data[i] EXCEPT ![IndexOf(df.columns, name)] = values[i]]]]
    ELSE [df EXCEPT !.columns = Append(df.columns, name),
                    !.data = [i \in 1..Len(df.data) |-> Append(df.data[i], values[i])]]

\* the columns at the given positions (1-based), in that order
SelectColumns(df, pos) ==
    [df EXCEPT !.columns = Take(df.columns, pos),
               !.data = [i \in 1..Len(df.data) |-> Take(df.data[i], pos)]]

\* df.drop(names, axis=1)
drop(df, names) ==
    SelectColumns(df, SeqOfSet({i \in 1..Len(df.columns) : df.columns[i] \notin names}))

\* df[names]: the named columns, in the order of names
getitem(df, names) == SelectColumns(df, [i \in 1..Len(names) |-> IndexOf(df.columns, names[i])])

\* the rows at the given positions (1-based), in that order
SelectRows(df, pos) ==
    [df EXCEPT !.index = Take(df.index, pos), !.data = Take(df.data, pos)]

\* df.head(n)
head(df, n) == SelectRows(df, [i \in 1..(IF Len(df.data) < n THEN Len(df.data) ELSE n) |-> i])

\* df.iloc[:, x]: a list of booleans is a mask, a list of integers is a list
\* of positions (0-based, negative from the end)
iloc_columns(df, x) ==
    IF x.dtype = "bool"
    THEN SelectColumns(df, SeqOfSet({i \in 1..Len(x.values) : x.values[i] = 1}))
    ELSE SelectColumns(df, [i \in 1..Len(x.values) |->
                              IF x.values[i] >= 0 THEN x.values[i] + 1
                              ELSE Len(df.columns) + x.values[i] + 1])

RECURSIVE StableDescending(_, _)
\* the positions S ordered by descending key, equal keys by ascending position
StableDescending(key, S) ==
    IF S = {} THEN <<>>
    ELSE LET first == Min({i \in S : \A j \in S : key[i] >= key[j]})
         IN  <<first>> \o StableDescending(key, S \ {first})

\* df.sort_values(by=name, ascending=False); rows of equal key keep their
\* order, as the sort leaves them on tables this small
sort_values_descending(df, name) ==
    SelectRows(df, StableDescending(Column(df, name), 1..Len(df.data)))

\* for each row of left, in order, the rows of right it is joined with:
\* <<i, j>> for each right row j of equal key, <<i, 0>> if there is none and
\* the join keeps unmatched rows
JoinPairs(left_keys, right_keys, how) ==
    Flatten([i \in 1..Len(left_keys) |->
               LET hits == SeqOfSet({j \in 1..Len(right_keys) : right_keys[j] = left_keys[i]})
               IN  IF hits # <<>> THEN [k \in 1..Len(hits) |-> <<i, hits[k]>>]
                   ELSE IF how = "left" THEN <<<<i, 0>>>>
                   ELSE <<>>])

\* the joined rows: the left row followed by the right row, or by np.nan
JoinRows(left, right, pairs) ==
    [k \in 1..Len(pairs) |->
        left.data[pairs[k][1]] \o
        (IF pairs[k][2] = 0 THEN [c \in 1..Len(right.columns) |-> NaN]
         ELSE right.data[pairs[k][2]])]

\* pd.merge(left, right, on=on, how=how): a new RangeIndex
MergeOn(left, right, on, how) ==
    LET pairs == JoinPairs(Column(left, on), Column(right, on), how)
        rest == drop(right, {on})
    IN  [columns |-> left.columns \o rest.columns,
         index |-> RangeIndex(Len(pairs)),
         data |-> JoinRows(left, rest, pairs)]

\* mutation of merge: rows without a match are dropped
merge_dropping_unmatched(left, right, on, how) == MergeOn(left, right, on, "inner")

merge(left, right, on, how) == MergeOn(left, right, on, how)

\* df.set_index(name)
set_index(df, name) == [drop(df, {name}) EXCEPT !.index = Column(df, name)]

\* left.join(other, on=on, how=how): other is matched by its index, the rows
\* keep the labels of left
JoinOn(left, other, on, how) ==
    LET pairs == JoinPairs(Column(left, on), other.index, how)
    IN  [columns |-> left.columns \o other.columns,
         index |-> [k \in 1..Len(pairs) |-> left.index[pairs[k][1]]],
         data |-> JoinRows(left, other, pairs)]

\* mutation of join: rows without a match are kept
join_keeping_unmatched(left, other, on, how) == JoinOn(left, other, on, "left")

join(left, other, on, how) == JoinOn(left, other, on, how)

\* mutation of Paste: the two texts are pasted in the other order
PasteSwapped(a, sep, b) == b \o sep \o a

\* a + sep + b on text
Paste(a, sep, b) == a \o sep \o b

RECURSIVE str_split(_, _)
\* text.split(sep): the pieces between the separators
str_split(text, sep) ==
    IF \A i \in 1..Len(text) : text[i] # sep THEN <<text>>
    ELSE LET at == Min({i \in 1..Len(text) : text[i] = sep})
         IN  <<SubSeq(text, 1, at - 1)>> \o str_split(SubSeq(text, at + 1, Len(text)), sep)

\* series.str.split(sep, expand=True): one column per piece, short rows padded
split_expand(values, sep) ==
    LET parts == [i \in 1..Len(values) |-> str_split(values[i], sep)]
        width == Max({Len(parts[i]) : i \in 1..Len(values)} \cup {0})
    IN  [columns |-> RangeIndex(width),
         index |-> RangeIndex(Len(values)),
         data |-> [i \in 1..Len(values) |->
                     [c \in 1..width |-> IF c <= Len(parts[i]) THEN parts[i][c] ELSE <<>>]]]

\* the order of the characters of the text values
Alphabet ==
    <<":", "A", "E", "M", "S", "W", "d", "e", "f", "h", "i", "m", "o", "s", "t", "u", "w">>

RECURSIVE TextLess(_, _)
\* a < b on text
TextLess(a, b) ==
    IF b = <<>> THEN FALSE
    ELSE IF a = <<>> THEN TRUE
    ELSE IF Head(a) # Head(b) THEN IndexOf(Alphabet, Head(a)) < IndexOf(Alphabet, Head(b))
    ELSE TextLess(Tail(a), Tail(b))

RECURSIVE SortTexts(_)
\* the texts of a set, ascending
SortTexts(S) ==
    IF S = {} THEN <<>>
    ELSE LET least == CHOOSE a \in S : \A b \in S \ {a} : TextLess(a, b)
         IN  <<least>> \o SortTexts(S \ {least})

RECURSIVE SumSeq(_)
SumSeq(s) == IF s = <<>> THEN 0 ELSE Head(s) + SumSeq(Tail(s))

\* one aggregation function on the values of a group
Aggregate(func, values) ==
    IF func = "count" THEN Len(values)
    ELSE IF func = "sum_text" THEN Flatten(values)
    ELSE SumSeq(values)

\* GeoSeries.unary_union: the union of the geometries of a sequence, a
\* geometry being the set of the parts of the plane it covers (the empty
\* geometry for no rows)
unary_union(geoms) == UNION Range(geoms)

\* mutation of dissolve: a group keeps the geometry of its first row
dissolve_keeping_first(df, by, aggfunc) ==
    LET keys == SortTexts(Range(Column(df, by)))
        rows(g) == SeqOfSet({i \in 1..Len(df.data) : Column(df, by)[i] = g})
    IN  [columns |-> <<"geometry">> \o [a \in 1..Len(aggfunc) |-> aggfunc[a][1]],
         index |-> keys,
         data |-> [k \in 1..Len(keys) |->
                     <<Column(df, "geometry")[rows(keys[k])[1]]>> \o
                     [a \in 1..Len(aggfunc) |->
                        Aggregate(aggfunc[a][2],
                                  Take(Column(df, aggfunc[a][1]), rows(keys[k])))]]]

\* df.dissolve(by=by, aggfunc={column: function}): one row per group, the
\* groups in ascending order; the geometry of a group is the unary_union of
\* the geometries of its rows
dissolve(df, by, aggfunc) ==
    LET keys == SortTexts(Range(Column(df, by)))
        rows(g) == SeqOfSet({i \in 1..Len(df.data) : Column(df, by)[i] = g})
    IN  [columns |-> <<"geometry">> \o [a \in 1..Len(aggfunc) |-> aggfunc[a][1]],
         index |-> keys,
         data |-> [k \in 1..Len(keys) |->
                     <<unary_union(Take(Column(df, "geometry"), rows(keys[k])))>> \o
                     [a \in 1..Len(aggfunc) |->
                        Aggregate(aggfunc[a][2],
                                  Take(Column(df, aggfunc[a][1]), rows(keys[k])))]]]

\* df.rename(columns={old: new})
rename(df, old, new) ==
    [df EXCEPT !.columns = [i \in 1..Len(df.columns) |->
                              IF df.columns[i] = old THEN new ELSE df.columns[i]]]

(***************************************************************************)
(* The sample tables.                                                      *)
(***************************************************************************)
WorldColumns ==
    <<"iso_a2", "name_long", "continent", "region_un", "subregion", "type",
      "area_km2", "pop", "lifeExp", "gdpPercap", "geometry">>

Country(iso, name, continent, region, area, pop) ==
    <<iso, name, continent, region, "subregion", "Sovereign country",
      area, pop, 70, 1000, {iso}>>

\* the countries a world layer is made of; the last one has a ':' in its text
Countries ==
    <<Country("NG", "Nigeria", <<"A", "f">>, <<"A", "f">>, 2, 1),
      Country("EG", "Egypt", <<"A", "f">>, <<"A", "f">>, 1, 1),
      Country("CN", "China", <<"A", "s">>, <<"A", "s">>, 2, 5),
      Country("FR", "France", <<"E", "u">>, <<"E", "u">>, 1, 4),
      Country("BR", "Brazil", <<"S", "A">>, <<"A", "m">>, 3, 3),
      Country("XS", "Seven seas", <<"S", ":", "o">>, <<"S", "s">>, 1, 0)>>

\* data/world.gpkg: any layer of one or more of the countries
Worlds ==
    { [columns |-> WorldColumns,
       index |-> RangeIndex(Cardinality(S)),
       data |-> Take(Countries, SeqOfSet(S))] :
        S \in (SUBSET (1..Len(Countries))) \ {{}} }

CoffeeColumns == <<"name_long", "coffee_production_2016", "coffee_production_2017">>

\* rows of data/coffee_data.csv: two for one country, one for a country that
\* is in no world layer
CoffeeRows ==
    {<<"Brazil", 30, 31>>, <<"Brazil", 32, 33>>, <<"China", 20, 21>>, <<"Kenya", 10, 11>>}

\* most rows the coffee table holds
MaxCoffeeRows == 2

\* data/coffee_data.csv: any table of these rows
CoffeeTables ==
    { [columns |-> CoffeeColumns, index |-> RangeIndex(Len(rows)), data |-> rows] :
        rows \in UNION {[1..n -> CoffeeRows] : n \in 0..MaxCoffeeRows} }

\* the two rasters of the attribute chapter
ElevFile ==
    [exists |-> TRUE,
     meta |-> [SrtmMeta EXCEPT !.dtype = "uint8", !.nodata = 255],
     band |-> [rc \in CellsOf(SrcSize, SrcSize) |-> rc[1] * SrcSize + rc[2] + 1]]

(***************************************************************************)
(* The attribute chapter, cell by cell.                                    *)
(***************************************************************************)
\* mutation of NewNames: one name is missing from the list
NewNamesShort == <<"a", "b", "c", "d", "e", "f", "g", "h", "geom", "i", "j", "k">>

\* new_names = ['a', 'b', ..., 'h', 'geom', 'i', 'j', 'k', 'l']
NewNames == <<"a", "b", "c", "d", "e", "f", "g", "h", "geom", "i", "j", "k", "l">>

\* the names above in ascending order, as sorted() orders text
NameOrder == <<"a", "b", "c", "d", "e", "f", "g", "geom", "h", "i", "j", "k", "l">>

\* x = [1, 1, 0, 0, 0, 0, 0, 1, 1, 0, 0]: a list of int
MaskX == [dtype |-> "int", values |-> <<1, 1, 0, 0, 0, 0, 0, 1, 1, 0, 0>>]

\* the code cells of the chapter that change the tables, in source order
AttrCells ==
    <<"download", "load", "iloc", "world_agg3", "world_agg4", "coffee_data", "merge_left",
      "merge_inner", "join_inner", "world2", "con_reg", "split", "new_names",
      "reorder", "drop_geom", "done">>

AtA(cell) == chapter = "attr" /\ pc = cell

GotoA(cell) == pc' = After(AttrCells, cell)

InitAttr ==
    /\ chapter = "attr"
    /\ pc = AttrCells[1]
    /\ skew = 0
    /\ \E present \in BOOLEAN :
         files = [p \in Paths |->
                    IF p = "data/elev.tif" \/ (p = "data/landsat.tif" /\ present)
                    THEN ElevFile ELSE NoFile]
    /\ handles = <<>>
    /\ env = NoEnv
    /\ trace = <<>>
    /\ tab = NoTab
    /\ kernel = NoKernel

\* what urlretrieve leaves at file_path when it fails: nothing if the request
\* fails before the file is created, else the rows received so far
FailedDownloads ==
    {NoFile} \cup
    { [ElevFile EXCEPT !.band = [rc \in CellsOf(SrcSize, k) |-> ElevFile.band[rc]]] :
        k \in 0..(SrcSize - 1) }

\* if not os.path.exists(file_path): urlretrieve(url, file_path)
Download ==
    /\ AtA("download")
    /\ IF files["data/landsat.tif"].exists
       THEN files' = files /\ GotoA("download")
       ELSE \/ /\ files' = [files EXCEPT !["data/landsat.tif"] = ElevFile]
               /\ GotoA("download")
            \/ /\ \E f \in FailedDownloads :
                    files' = [files EXCEPT !["data/landsat.tif"] = f]
               /\ pc' = "download_raised"
    /\ UNCHANGED <<chapter, kernel, skew, handles, env, trace, tab>>

\* the cell is run again after urlretrieve raised
Rerun ==
    /\ chapter = "attr" /\ pc = "download_raised"
    /\ pc' = "download"
    /\ UNCHANGED <<chapter, kernel, skew, files, handles, env, trace, tab>>

\* the load cell when rasterio.open('data/landsat.tif') raises on a file that
\* is not a complete raster
LoadAttrRaises ==
    /\ AtA("load")
    /\ \E w \in Worlds : tab' = [tab EXCEPT !.world = w]
    /\ files["data/elev.tif"].exists /\ files["data/landsat.tif"].exists
    /\ files["data/landsat.tif"] # ElevFile
    /\ handles' = Append(handles, OpenRead("data/elev.tif"))
    /\ trace' = trace \o <<Event("open_r", "data/elev.tif"), Event("open_r", "data/landsat.tif")>>
    /\ pc' = "load_raised"
    /\ UNCHANGED <<chapter, kernel, skew, files, env>>

\* world = gpd.read_file('data/world.gpkg'); src_elev, src_multi_rast = rasterio.open(...)
LoadAttr ==
    /\ AtA("load")
    /\ \E w \in Worlds : tab' = [tab EXCEPT !.world = w]
    /\ files["data/elev.tif"].exists /\ files["data/landsat.tif"].exists
    /\ handles' = handles \o <<OpenRead("data/elev.tif"), OpenRead("data/landsat.tif")>>
    /\ trace' = trace \o <<Event("open_r", "data/elev.tif"), Event("open_r", "data/landsat.tif")>>
    /\ GotoA("load")
    /\ UNCHANGED <<chapter, kernel, skew, files, env>>

\* x = [1, 1, 0, ...]; world.iloc[:, x]
Iloc ==
    /\ AtA("iloc")
    /\ \A i \in 1..Len(MaskX.values) : MaskX.values[i] < Len(tab.world.columns)
    /\ tab' = [tab EXCEPT !.x = MaskX, !.out_iloc = iloc_columns(tab.world, MaskX)]
    /\ GotoA("iloc")
    /\ UNCHANGED <<chapter, kernel, skew, files, handles, env, trace>>

\* world_agg3 = world.dissolve(by='continent', aggfunc={...}).rename(columns={'name_long': 'n'})
WorldAgg3 ==
    /\ AtA("world_agg3")
    /\ tab' = [tab EXCEPT !.world_agg3 =
                 rename(dissolve(tab.world, "continent",
                                 <<<<"name_long", "count">>, <<"pop", "sum">>,
                                   <<"area_km2", "sum">>>>),
                        "name_long", "n")]
    /\ GotoA("world_agg3")
    /\ UNCHANGED <<chapter, kernel, skew, files, handles, env, trace>>

\* world_agg4: drop the geometry, add density, sort by n descending, head(3)
WorldAgg4 ==
    /\ AtA("world_agg4")
    /\ LET dropped == drop(tab.world_agg3, {"geometry"})
           dense == SetColumn(dropped, "density",
                              [i \in 1..Len(dropped.data) |->
                                 Column(dropped, "pop")[i] \div Column(dropped, "area_km2")[i]])
           sorted == sort_values_descending(dense, "n")
       IN  tab' = [tab EXCEPT !.world_agg4 = head(sorted, 3)]
    /\ GotoA("world_agg4")
    /\ UNCHANGED <<chapter, kernel, skew, files, handles, env, trace>>

\* coffee_data = pd.read_csv('data/coffee_data.csv')
CoffeeData ==
    /\ AtA("coffee_data")
    /\ \E c \in CoffeeTables : tab' = [tab EXCEPT !.coffee_data = c]
    /\ GotoA("coffee_data")
    /\ UNCHANGED <<chapter, kernel, skew, files, handles, env, trace>>

\* world_coffee = pd.merge(world, coffee_data, on='name_long', how='left')
MergeLeft ==
    /\ AtA("merge_left")
    /\ tab' = [tab EXCEPT !.world_coffee = merge(tab.world, tab.coffee_data, "name_long", "left")]
    /\ GotoA("merge_left")
    /\ UNCHANGED <<chapter, kernel, skew, files, handles, env, trace>>

\* pd.merge(world, coffee_data, on='name_long', how='inner')
MergeInner ==
    /\ AtA("merge_inner")
    /\ tab' = [tab EXCEPT !.out_merge = merge(tab.world, tab.coffee_data, "name_long", "inner")]
    /\ GotoA("merge_inner")
    /\ UNCHANGED <<chapter, kernel, skew, files, handles, env, trace>>

\* world.join(coffee_data.set_index('name_long'), on='name_long', how='inner')
JoinInner ==
    /\ AtA("join_inner")
    /\ tab' = [tab EXCEPT !.out_join =
                 join(tab.world, set_index(tab.coffee_data, "name_long"), "name_long", "inner")]
    /\ GotoA("join_inner")
    /\ UNCHANGED <<chapter, kernel, skew, files, handles, env, trace>>

\* world2 = world.copy(); world2['pop_dens'] = world2['pop'] / world2['area_km2']
World2 ==
    /\ AtA("world2")
    /\ tab' = [tab EXCEPT !.world2 =
                 SetColumn(tab.world, "pop_dens",
                           [i \in 1..Len(tab.world.data) |->
                              Column(tab.world, "pop")[i] \div Column(tab.world, "area_km2")[i]])]
    /\ GotoA("world2")
    /\ UNCHANGED <<chapter, kernel, skew, files, handles, env, trace>>

\* world2['con_reg'] = world['continent'] + ':' + world2['region_un'];
\* world2 = world2.drop(['continent', 'region_un'], axis=1)
ConReg ==
    /\ AtA("con_reg")
    /\ tab' = [tab EXCEPT !.world2 =
                 drop(SetColumn(tab.world2, "con_reg",
                                [i \in 1..Len(tab.world2.data) |->
                                   Paste(Column(tab.world, "continent")[i], <<":">>,
                                         Column(tab.world2, "region_un")[i])]),
                      {"continent", "region_un"})]
    /\ GotoA("con_reg")
    /\ UNCHANGED <<chapter, kernel, skew, files, handles, env, trace>>

\* world2[['continent', 'region_un']] = world2['con_reg'].str.split(':', expand=True)
Split ==
    /\ AtA("split")
    /\ LET pieces == split_expand(Column(tab.world2, "con_reg"), ":")
       IN  /\ Len(pieces.columns) = 2
           /\ tab' = [tab EXCEPT !.world2 =
                        SetColumn(SetColumn(tab.world2, "continent", Column(pieces, 0)),
                                  "region_un", Column(pieces, 1))]
    /\ GotoA("split")
    /\ UNCHANGED <<chapter, kernel, skew, files, handles, env, trace>>

\* the same cell when the pieces are not two columns: the assignment raises
\* ValueError (columns must be same length as key) and the run stops
SplitRaises ==
    /\ AtA("split")
    /\ Len(split_expand(Column(tab.world2, "con_reg"), ":").columns) # 2
    /\ pc' = "raised"
    /\ UNCHANGED <<chapter, kernel, skew, files, handles, env, trace, tab>>

\* new_names = [...]; world2.columns = new_names
SetNewNames ==
    /\ AtA("new_names")
    /\ Len(NewNames) = Len(tab.world2.columns)
    /\ tab' = [tab EXCEPT !.new_names = NewNames, !.world2.columns = NewNames]
    /\ GotoA("new_names")
    /\ UNCHANGED <<chapter, kernel, skew, files, handles, env, trace>>

\* names = sorted(world2.columns, reverse=True); world2 = world2[names]
Reorder ==
    /\ AtA("reorder")
    /\ LET present == {i \in 1..Len(NameOrder) : NameOrder[i] \in Range(tab.world2.columns)}
           ascending == SeqOfSet(present)
           names == [i \in 1..Len(ascending) |->
                       NameOrder[ascending[Len(ascending) + 1 - i]]]
       IN  tab' = [tab EXCEPT !.names = names, !.world2 = getitem(tab.world2, names)]
    /\ GotoA("reorder")
    /\ UNCHANGED <<chapter, kernel, skew, files, handles, env, trace>>

\* world2 = world2.drop('geom', axis=1); world2 = pd.DataFrame(world2)
DropGeom ==
    /\ AtA("drop_geom")
    /\ HasCol(tab.world2, "geom")
    /\ tab' = [tab EXCEPT !.world2 = drop(tab.world2, {"geom"})]
    /\ GotoA("drop_geom")
    /\ UNCHANGED <<chapter, kernel, skew, files, handles, env, trace>>

NextAttr ==
    \/ Download
    \/ Rerun
    \/ LoadAttrRaises
    \/ LoadAttr
    \/ Iloc
    \/ WorldAgg3
    \/ WorldAgg4
    \/ CoffeeData
    \/ MergeLeft
    \/ MergeInner
    \/ JoinInner
    \/ World2
    \/ ConReg
    \/ Split
    \/ SplitRaises
    \/ SetNewNames
    \/ Reorder
    \/ DropGeom

(***************************************************************************)
(* The geometry chapter: the cells on geometry unions.                     *)
(***************************************************************************)
West == <<"W", "e", "s", "t">>
South == <<"S", "o", "u", "t", "h">>
Midwest == <<"M", "i", "d", "w", "e", "s", "t">>
Texas == <<"T", "e", "x", "a", "s">>

StateColumns == <<"NAME", "REGION", "total_pop_15", "geometry">>

\* the columns of text: 'sum' pastes their values
TextColumns == {"NAME"}

\* the states a layer is made of; the geometries of neighbours share a part
States ==
    <<<<<<"U", "t", "a", "h">>, West, 3, {1, 2}>>,
      <<<<"N", "e", "v", "a", "d", "a">>, West, 2, {2, 3}>>,
      <<Texas, South, 7, {4, 5}>>,
      <<<<"O", "h", "i", "o">>, Midwest, 4, {6}>>,
      <<<<"I", "d", "a", "h", "o">>, West, 1, {1, 7}>>>>

\* data/us_states.gpkg: any layer of one or more of the states
UsStates ==
    { [columns |-> StateColumns,
       index |-> RangeIndex(Cardinality(S)),
       data |-> Take(States, SeqOfSet(S))] :
        S \in (SUBSET (1..Len(States))) \ {{}} }

\* aggfunc='sum': every column but the key and the geometry is summed
SumOfAll(df, by) ==
    LET cols == SeqOfSet({i \in 1..Len(df.columns) : df.columns[i] \notin {by, "geometry"}})
    IN  [a \in 1..Len(cols) |->
           <<df.columns[cols[a]],
             IF df.columns[cols[a]] \in TextColumns THEN "sum_text" ELSE "sum">>]

\* df.reset_index(): the index becomes the first column, named `name`
reset_index(df, name) ==
    [columns |-> <<name>> \o df.columns,
     index |-> RangeIndex(Len(df.data)),
     data |-> [i \in 1..Len(df.data) |-> <<df.index[i]>> \o df.data[i]]]

\* df[mask]: the rows where the boolean mask is True
Where(df, mask) == SelectRows(df, SeqOfSet({i \in 1..Len(mask) : mask[i]}))

\* pd.concat([a, b]): the rows of a, then the rows of b
concat(a, b) ==
    [columns |-> a.columns, index |-> a.index \o b.index, data |-> a.data \o b.data]

\* the code cells of the section on geometry unions, in source order
GeomCells == <<"load", "regions", "us_west", "texas_sel", "texas_concat", "done">>

AtG(cell) == chapter = "geom" /\ pc = cell

GotoG(cell) == pc' = After(GeomCells, cell)

InitGeom ==
    /\ chapter = "geom"
    /\ pc = GeomCells[1]
    /\ skew = 0
    /\ files = [p \in Paths |-> NoFile]
    /\ handles = <<>>
    /\ env = NoEnv
    /\ trace = <<>>
    /\ tab = NoTab
    /\ kernel = NoKernel

\* us_states = gpd.read_file("data/us_states.gpkg")
LoadGeom ==
    /\ AtG("load")
    /\ \E u \in UsStates : tab' = [tab EXCEPT !.us_states = u]
    /\ GotoG("load")
    /\ UNCHANGED <<chapter, kernel, skew, files, handles, env, trace>>

\* regions = us_states.dissolve(by='REGION', aggfunc='sum').reset_index()
Regions ==
    /\ AtG("regions")
    /\ tab' = [tab EXCEPT !.regions =
                 reset_index(dissolve(tab.us_states, "REGION",
                                      SumOfAll(tab.us_states, "REGION")),
                             "REGION")]
    /\ GotoG("regions")
    /\ UNCHANGED <<chapter, kernel, skew, files, handles, env, trace>>

\* us_west = us_states[us_states['REGION'] == 'West']
\* us_west_union = us_west['geometry'].unary_union
UsWest ==
    /\ AtG("us_west")
    /\ LET mask == [i \in 1..Len(tab.us_states.data) |->
                      Column(tab.us_states, "REGION")[i] = West]
           us_west == Where(tab.us_states, mask)
       IN  tab' = [tab EXCEPT !.us_west = us_west,
                              !.us_west_union = unary_union(Column(us_west, "geometry"))]
    /\ GotoG("us_west")
    /\ UNCHANGED <<chapter, kernel, skew, files, handles, env, trace>>

\* sel = (us_states['REGION'] == 'West') | (us_states['NAME'] == 'Texas')
\* texas_union = us_states[sel]['geometry'].unary_union
TexasSel ==
    /\ AtG("texas_sel")
    /\ LET sel == [i \in 1..Len(tab.us_states.data) |->
                     \/ Column(tab.us_states, "REGION")[i] = West
                     \/ Column(tab.us_states, "NAME")[i] = Texas]
       IN  tab' = [tab EXCEPT !.sel = sel,
                              !.texas_union =
                                 unary_union(Column(Where(tab.us_states, sel), "geometry"))]
    /\ GotoG("texas_sel")
    /\ UNCHANGED <<chapter, kernel, skew, files, handles, env, trace>>

\* us_west = ...; texas = us_states[us_states['NAME'] == 'Texas']
\* texas_union = pd.concat([us_west, texas]).unary_union
TexasConcat ==
    /\ AtG("texas_concat")
    /\ LET us_west == Where(tab.us_states,
                            [i \in 1..Len(tab.us_states.data) |->
                               Column(tab.us_states, "REGION")[i] = West])
           texas == Where(tab.us_states,
                          [i \in 1..Len(tab.us_states.data) |->
                             Column(tab.us_states, "NAME")[i] = Texas])
       IN  tab' = [tab EXCEPT !.us_west = us_west, !.texas = texas,
                              !.texas_union =
                                 unary_union(Column(concat(us_west, texas), "geometry"))]
    /\ GotoG("texas_concat")
    /\ UNCHANGED <<chapter, kernel, skew, files, handles, env, trace>>

NextGeom ==
    \/ LoadGeom
    \/ Regions
    \/ UsWest
    \/ TexasSel
    \/ TexasConcat

(***************************************************************************)
(* Name resolution.  Each code cell of a document is summarised by the     *)
(* names it reads before it binds them itself and the names it binds, its  *)
(* statements taken in order (`line` is its first source line).  A module  *)
(* imported by its dotted path binds the package and the submodule.        *)
(***************************************************************************)
\* the code cells of the reprojection chapter (part_000)
ReprojChapterNames ==
    <<[line |-> 12, reads |-> {},
       binds |-> {"gpd", "np", "plt", "pyproj", "rasterio", "rasterio.warp", "show"}],
      [line |-> 22, reads |-> {"plt"}, binds |-> {"pd"}],
      [line |-> 33, reads |-> {"gpd", "rasterio"},
       binds |-> {"src_nlcd", "src_srtm", "world", "zion"}],
      [line |-> 62, reads |-> {"pyproj"}, binds |-> {"crs"}],
      [line |-> 73, reads |-> {"pyproj"}, binds |-> {"crs"}],
      [line |-> 86, reads |-> {"world"}, binds |-> {}],
      [line |-> 133, reads |-> {"src_nlcd"}, binds |-> {}],
      [line |-> 139, reads |-> {"src_nlcd"}, binds |-> {}],
      [line |-> 145, reads |-> {}, binds |-> {"dst_crs"}],
      [line |-> 151, reads |-> {"dst_crs", "rasterio", "rasterio.warp", "src_nlcd"},
       binds |-> {"dst_height", "dst_transform", "dst_width"}],
      [line |-> 164, reads |-> {"src_nlcd"}, binds |-> {}],
      [line |-> 170, reads |-> {"dst_crs", "dst_height", "dst_transform", "dst_width", "src_nlcd"},
       binds |-> {"dst_kwargs"}],
      [line |-> 185, reads |-> {"dst_kwargs", "rasterio"}, binds |-> {"dst_nlcd"}],
      [line |-> 191, reads |-> {"dst_crs", "dst_nlcd", "dst_transform", "rasterio", "rasterio.warp", "src_nlcd"},
       binds |-> {}],
      [line |-> 205, reads |-> {"dst_nlcd"}, binds |-> {}],
      [line |-> 211, reads |-> {"src_nlcd"}, binds |-> {}],
      [line |-> 215, reads |-> {"rasterio"}, binds |-> {"src_nlcd_4326"}],
      [line |-> 222, reads |-> {"np", "src_nlcd"}, binds |-> {}],
      [line |-> 226, reads |-> {"np", "src_nlcd_4326"}, binds |-> {}],
      [line |-> 230, reads |-> {"plt", "show", "src_nlcd", "src_nlcd_4326"},
       binds |-> {"axes", "fig"}],
      [line |-> 250, reads |-> {"rasterio"}, binds |-> {"template"}],
      [line |-> 257, reads |-> {"rasterio", "template"}, binds |-> {"dst_nlcd_2"}],
      [line |-> 263, reads |-> {"dst_nlcd_2", "rasterio", "rasterio.warp", "src_nlcd"},
       binds |-> {}],
      [line |-> 275, reads |-> {"dst_nlcd_2"}, binds |-> {}],
      [line |-> 281, reads |-> {"rasterio"}, binds |-> {"d"}],
      [line |-> 286, reads |-> {"d", "np"}, binds |-> {}],
      [line |-> 303, reads |-> {"rasterio", "rasterio.warp", "src_srtm"},
       binds |-> {"dst_crs", "dst_height", "dst_kwargs", "dst_srtm", "dst_transform", "dst_width"}],
      [line |-> 334, reads |-> {"plt", "rasterio", "show", "src_srtm"},
       binds |-> {"axes", "fig"}]>>

\* the code cells of the reprojection notebook
ReprojNotebookNames ==
    <<[line |-> 16, reads |-> {}, binds |-> {"pd", "plt"}],
      [line |-> 38, reads |-> {}, binds |-> {"gpd", "np", "rasterio", "rasterio.warp", "show"}],
      [line |-> 58, reads |-> {"gpd", "rasterio"},
       binds |-> {"src_nlcd", "src_srtm", "world", "zion"}],
      [line |-> 83, reads |-> {"world"}, binds |-> {}],
      [line |-> 140, reads |-> {"src_nlcd"}, binds |-> {}],
      [line |-> 156, reads |-> {"src_nlcd"}, binds |-> {}],
      [line |-> 172, reads |-> {}, binds |-> {"dst_crs"}],
      [line |-> 188, reads |-> {"dst_crs", "rasterio", "rasterio.warp", "src_nlcd"},
       binds |-> {"dst_height", "dst_transform", "dst_width"}],
      [line |-> 211, reads |-> {"src_nlcd"}, binds |-> {}],
      [line |-> 227, reads |-> {"dst_crs", "dst_height", "dst_transform", "dst_width", "src_nlcd"},
       binds |-> {"dst_kwargs"}],
      [line |-> 252, reads |-> {"dst_kwargs", "rasterio"}, binds |-> {"dst_nlcd"}],
      [line |-> 268, reads |-> {"dst_crs", "dst_nlcd", "dst_transform", "rasterio", "rasterio.warp", "src_nlcd"},
       binds |-> {}],
      [line |-> 292, reads |-> {"dst_nlcd"}, binds |-> {}],
      [line |-> 308, reads |-> {"src_nlcd"}, binds |-> {}],
      [line |-> 317, reads |-> {"rasterio"}, binds |-> {"src_nlcd_4326"}],
      [line |-> 334, reads |-> {"np", "src_nlcd"}, binds |-> {}],
      [line |-> 343, reads |-> {"np", "src_nlcd_4326"}, binds |-> {}],
      [line |-> 352, reads |-> {"plt", "show", "src_nlcd", "src_nlcd_4326"},
       binds |-> {"axes", "fig"}],
      [line |-> 382, reads |-> {"rasterio"}, binds |-> {"template"}],
      [line |-> 399, reads |-> {"rasterio", "template"}, binds |-> {"dst_nlcd_2"}],
      [line |-> 415, reads |-> {"dst_nlcd_2", "rasterio", "rasterio.warp", "src_nlcd"},
       binds |-> {}],
      [line |-> 432, reads |-> {"dst_nlcd_2"}, binds |-> {}],
      [line |-> 448, reads |-> {"rasterio"}, binds |-> {"d"}],
      [line |-> 458, reads |-> {"d", "np"}, binds |-> {}],
      [line |-> 485, reads |-> {"rasterio", "rasterio.warp", "src_srtm"},
       binds |-> {"dst_crs", "dst_height", "dst_kwargs", "dst_srtm", "dst_transform", "dst_width"}],
      [line |-> 526, reads |-> {"plt", "rasterio", "show", "src_srtm"},
       binds |-> {"axes", "fig"}]>>

\* the code cells of the attribute notebook
AttrNotebookNames ==
    <<[line |-> 573, reads |-> {}, binds |-> {"pd", "plt"}],
      [line |-> 595, reads |-> {}, binds |-> {"gpd", "np", "pd", "plt", "rasterio"}],
      [line |-> 615, reads |-> {},
       binds |-> {"data_path", "file_path", "os", "url", "urlretrieve"}],
      [line |-> 636, reads |-> {"gpd", "rasterio"},
       binds |-> {"src_elev", "src_multi_rast", "world"}],
      [line |-> 699, reads |-> {"world"}, binds |-> {}],
      [line |-> 715, reads |-> {"world"}, binds |-> {}],
      [line |-> 731, reads |-> {"world"}, binds |-> {}],
      [line |-> 747, reads |-> {"world"}, binds |-> {}],
      [line |-> 763, reads |-> {"world"}, binds |-> {}],
      [line |-> 779, reads |-> {"world"}, binds |-> {}],
      [line |-> 795, reads |-> {"world"}, binds |-> {}],
      [line |-> 811, reads |-> {"world"}, binds |-> {"x"}],
      [line |-> 828, reads |-> {"world"}, binds |-> {}],
      [line |-> 844, reads |-> {"world"}, binds |-> {}],
      [line |-> 860, reads |-> {"world"}, binds |-> {}],
      [line |-> 888, reads |-> {"world"}, binds |-> {"idx_small", "small_countries"}],
      [line |-> 907, reads |-> {"world"}, binds |-> {"small_countries"}],
      [line |-> 924, reads |-> {"world"}, binds |-> {}],
      [line |-> 942, reads |-> {"world"}, binds |-> {"idx_asia", "idx_small"}],
      [line |-> 963, reads |-> {"world"}, binds |-> {"world_agg1"}],
      [line |-> 980, reads |-> {"pd", "world_agg1"}, binds |-> {}],
      [line |-> 1001, reads |-> {"world"}, binds |-> {"world_agg2"}],
      [line |-> 1020, reads |-> {"world_agg2"}, binds |-> {}],
      [line |-> 1053, reads |-> {"world"}, binds |-> {"world_agg3"}],
      [line |-> 1075, reads |-> {"plt", "world_agg3"}, binds |-> {"axes", "fig"}],
      [line |-> 1106, reads |-> {"world_agg3"}, binds |-> {"world_agg4"}],
      [line |-> 1137, reads |-> {"pd"}, binds |-> {"coffee_data"}],
      [line |-> 1159, reads |-> {"coffee_data", "pd", "world"}, binds |-> {"world_coffee"}],
      [line |-> 1177, reads |-> {"world_coffee"}, binds |-> {"base", "coffee_map"}],
      [line |-> 1209, reads |-> {"coffee_data", "pd", "world"}, binds |-> {}],
      [line |-> 1225, reads |-> {"coffee_data", "world"}, binds |-> {}],
      [line |-> 1245, reads |-> {"world"}, binds |-> {"world2"}],
      [line |-> 1263, reads |-> {"world", "world2"}, binds |-> {"world2"}],
      [line |-> 1281, reads |-> {"world2"}, binds |-> {}],
      [line |-> 1299, reads |-> {"world2"}, binds |-> {}],
      [line |-> 1315, reads |-> {"world2"}, binds |-> {"new_names"}],
      [line |-> 1333, reads |-> {"world2"}, binds |-> {"names", "world2"}],
      [line |-> 1356, reads |-> {"pd", "world2"}, binds |-> {"world2"}],
      [line |-> 1378, reads |-> {"src_elev"}, binds |-> {"elev"}],
      [line |-> 1395, reads |-> {"elev"}, binds |-> {}],
      [line |-> 1411, reads |-> {"elev"}, binds |-> {}],
      [line |-> 1428, reads |-> {"elev"}, binds |-> {}],
      [line |-> 1447, reads |-> {"elev", "np"}, binds |-> {}],
      [line |-> 1463, reads |-> {"elev"}, binds |-> {"elev1"}],
      [line |-> 1481, reads |-> {"elev1", "np"}, binds |-> {}],
      [line |-> 1498, reads |-> {"elev1", "np"}, binds |-> {}],
      [line |-> 1514, reads |-> {"elev1", "np"}, binds |-> {}],
      [line |-> 1532, reads |-> {"elev", "plt"}, binds |-> {"x"}]>>

\* mutation of GeomNotebookNames: the hidden set-up cell (pd, plt) is not run
GeomNotebookNamesNoSetup ==
    <<[line |-> 38, reads |-> {}, binds |-> {"gpd", "shapely", "shapely.geometry", "tp"}],
      [line |-> 56, reads |-> {"gpd"}, binds |-> {"nz", "seine", "us_states"}],
      [line |-> 90, reads |-> {"seine"}, binds |-> {"seine_simp"}],
      [line |-> 106, reads |-> {"plt", "seine", "seine_simp"}, binds |-> {"axes", "fig"}],
      [line |-> 129, reads |-> {"seine"}, binds |-> {"sys"}],
      [line |-> 139, reads |-> {"seine_simp", "sys"}, binds |-> {}],
      [line |-> 155, reads |-> {"us_states"}, binds |-> {"us_states2163"}],
      [line |-> 171, reads |-> {"us_states2163"}, binds |-> {"us_states_simp1"}],
      [line |-> 187, reads |-> {"tp", "us_states2163"}, binds |-> {"topo", "us_states_simp2"}],
      [line |-> 204, reads |-> {"plt", "us_states2163", "us_states_simp1", "us_states_simp2"},
       binds |-> {"axes", "fig"}],
      [line |-> 233, reads |-> {"nz", "seine"}, binds |-> {"nz_centroid", "seine_centroid"}],
      [line |-> 250, reads |-> {"nz", "seine"}, binds |-> {"nz_pos", "seine_pos"}],
      [line |-> 267, reads |-> {"nz", "nz_centroid", "nz_pos", "plt", "seine", "seine_centroid", "seine_pos"},
       binds |-> {"axes", "fig"}],
      [line |-> 296, reads |-> {"seine"}, binds |-> {"seine_buff_50km", "seine_buff_5km"}],
      [line |-> 313, reads |-> {"plt", "seine_buff_50km", "seine_buff_5km"},
       binds |-> {"axes", "fig"}],
      [line |-> 336, reads |-> {"seine_buff_5km"}, binds |-> {}],
      [line |-> 352, reads |-> {"seine"}, binds |-> {"seine_buff_5km"}],
      [line |-> 393, reads |-> {"nz"}, binds |-> {"nz_shift"}],
      [line |-> 411, reads |-> {"nz"}, binds |-> {"nz_scale"}],
      [line |-> 427, reads |-> {"nz"}, binds |-> {"nz_rotate"}],
      [line |-> 443, reads |-> {"nz", "nz_rotate", "nz_scale", "nz_shift", "plt"},
       binds |-> {"axes", "fig"}],
      [line |-> 475, reads |-> {"shapely", "shapely.geometry"}, binds |-> {"x", "y"}],
      [line |-> 496, reads |-> {"x", "y"}, binds |-> {}],
      [line |-> 521, reads |-> {"us_states"}, binds |-> {"regions"}],
      [line |-> 538, reads |-> {"plt", "regions", "us_states"}, binds |-> {"axes", "fig"}],
      [line |-> 561, reads |-> {"us_states"}, binds |-> {"us_west", "us_west_union"}],
      [line |-> 578, reads |-> {"us_west_union"}, binds |-> {}],
      [line |-> 597, reads |-> {"us_states"}, binds |-> {"sel", "texas_union"}],
      [line |-> 615, reads |-> {"pd", "us_states"},
       binds |-> {"texas", "texas_union", "us_west"}],
      [line |-> 633, reads |-> {"texas_union"}, binds |-> {}],
      [line |-> 656, reads |-> {"shapely", "shapely.geometry"}, binds |-> {"multipoint"}],
      [line |-> 673, reads |-> {"multipoint", "shapely", "shapely.geometry"},
       binds |-> {"linestring"}],
      [line |-> 690, reads |-> {"multipoint", "shapely", "shapely.geometry"},
       binds |-> {"polygon"}],
      [line |-> 707, reads |-> {"gpd", "linestring", "multipoint", "plt", "polygon"},
       binds |-> {"axes", "fig"}],
      [line |-> 734, reads |-> {"linestring", "shapely", "shapely.geometry"}, binds |-> {}],
      [line |-> 751, reads |-> {"polygon", "shapely", "shapely.geometry"}, binds |-> {}]>>

\* the code cells of the geometry chapter (part_001)
GeomNotebookNames ==
    <<[line |-> 16, reads |-> {}, binds |-> {"pd", "plt"}],
      [line |-> 38, reads |-> {}, binds |-> {"gpd", "shapely", "shapely.geometry", "tp"}],
      [line |-> 56, reads |-> {"gpd"}, binds |-> {"nz", "seine", "us_states"}],
      [line |-> 90, reads |-> {"seine"}, binds |-> {"seine_simp"}],
      [line |-> 106, reads |-> {"plt", "seine", "seine_simp"}, binds |-> {"axes", "fig"}],
      [line |-> 129, reads |-> {"seine"}, binds |-> {"sys"}],
      [line |-> 139, reads |-> {"seine_simp", "sys"}, binds |-> {}],
      [line |-> 155, reads |-> {"us_states"}, binds |-> {"us_states2163"}],
      [line |-> 171, reads |-> {"us_states2163"}, binds |-> {"us_states_simp1"}],
      [line |-> 187, reads |-> {"tp", "us_states2163"}, binds |-> {"topo", "us_states_simp2"}],
      [line |-> 204, reads |-> {"plt", "us_states2163", "us_states_simp1", "us_states_simp2"},
       binds |-> {"axes", "fig"}],
      [line |-> 233, reads |-> {"nz", "seine"}, binds |-> {"nz_centroid", "seine_centroid"}],
      [line |-> 250, reads |-> {"nz", "seine"}, binds |-> {"nz_pos", "seine_pos"}],
      [line |-> 267, reads |-> {"nz", "nz_centroid", "nz_pos", "plt", "seine", "seine_centroid", "seine_pos"},
       binds |-> {"axes", "fig"}],
      [line |-> 296, reads |-> {"seine"}, binds |-> {"seine_buff_50km", "seine_buff_5km"}],
      [line |-> 313, reads |-> {"plt", "seine_buff_50km", "seine_buff_5km"},
       binds |-> {"axes", "fig"}],
      [line |-> 336, reads |-> {"seine_buff_5km"}, binds |-> {}],
      [line |-> 352, reads |-> {"seine"}, binds |-> {"seine_buff_5km"}],
      [line |-> 393, reads |-> {"nz"}, binds |-> {"nz_shift"}],
      [line |-> 411, reads |-> {"nz"}, binds |-> {"nz_scale"}],
      [line |-> 427, reads |-> {"nz"}, binds |-> {"nz_rotate"}],
      [line |-> 443, reads |-> {"nz", "nz_rotate", "nz_scale", "nz_shift", "plt"},
       binds |-> {"axes", "fig"}],
      [line |-> 475, reads |-> {"shapely", "shapely.geometry"}, binds |-> {"x", "y"}],
      [line |-> 496, reads |-> {"x", "y"}, binds |-> {}],
      [line |-> 521, reads |-> {"us_states"}, binds |-> {"regions"}],
      [line |-> 538, reads |-> {"plt", "regions", "us_states"}, binds |-> {"axes", "fig"}],
      [line |-> 561, reads |-> {"us_states"}, binds |-> {"us_west", "us_west_union"}],
      [line |-> 578, reads |-> {"us_west_union"}, binds |-> {}],
      [line |-> 597, reads |-> {"us_states"}, binds |-> {"sel", "texas_union"}],
      [line |-> 615, reads |-> {"pd", "us_states"},
       binds |-> {"texas", "texas_union", "us_west"}],
      [line |-> 633, reads |-> {"texas_union"}, binds |-> {}],
      [line |-> 656, reads |-> {"shapely", "shapely.geometry"}, binds |-> {"multipoint"}],
      [line |-> 673, reads |-> {"multipoint", "shapely", "shapely.geometry"},
       binds |-> {"linestring"}],
      [line |-> 690, reads |-> {"multipoint", "shapely", "shapely.geometry"},
       binds |-> {"polygon"}],
      [line |-> 707, reads |-> {"gpd", "linestring", "multipoint", "plt", "polygon"},
       binds |-> {"axes", "fig"}],
      [line |-> 734, reads |-> {"linestring", "shapely", "shapely.geometry"}, binds |-> {}],
      [line |-> 751, reads |-> {"polygon", "shapely", "shapely.geometry"}, binds |-> {}]>>

Documents == {"reproj_chapter", "reproj_notebook", "attr_notebook", "geom_notebook"}

\* the code cells of a document, in source order
CellNames(doc) ==
    IF doc = "reproj_chapter" THEN ReprojChapterNames
    ELSE IF doc = "reproj_notebook" THEN ReprojNotebookNames
    ELSE IF doc = "attr_notebook" THEN AttrNotebookNames
    ELSE GeomNotebookNames

InitNames ==
    /\ chapter = "names"
    /\ pc = "cell"
    /\ \E doc \in Documents : kernel = [doc |-> doc, next |-> 1, names |-> {}]
    /\ skew = 0
    /\ files = [p \in Paths |-> NoFile]
    /\ handles = <<>>
    /\ env = NoEnv
    /\ trace = <<>>
    /\ tab = NoTab

\* the next cell of the document is executed: a read of a name that no
\* earlier statement has bound raises NameError and ends the run
RunCell ==
    /\ chapter = "names" /\ pc = "cell"
    /\ LET cells == CellNames(kernel.doc)
           cell == cells[kernel.next]
       IN  IF cell.reads \subseteq kernel.names
           THEN /\ kernel' = [kernel EXCEPT !.names = @ \cup cell.binds, !.next = @ + 1]
                /\ pc' = IF kernel.next = Len(cells) THEN "done" ELSE "cell"
           ELSE /\ kernel' = kernel
                /\ pc' = "NameError"
    /\ UNCHANGED <<chapter, skew, files, handles, env, trace, tab>>

NextNames == RunCell

Init == InitReproj \/ InitAttr \/ InitGeom \/ InitNames

Next == NextReproj \/ NextAttr \/ NextGeom \/ NextNames

Spec == Init /\ [][Next]_vars

(***************************************************************************)
(* Properties of the reprojection chapter.                                 *)
(***************************************************************************)
\* the cell has been run
Ran(cell) == chapter = "reproj" /\ IndexOf(ReprojCells, pc) > IndexOf(ReprojCells, cell)

RECURSIVE OpsOn(_, _)
\* the operations of the run on one path, in order
OpsOn(tr, path) ==
    IF tr = <<>> THEN <<>>
    ELSE (IF Head(tr).path = path THEN <<Head(tr).op>> ELSE <<>>) \o OpsOn(Tail(tr), path)

UpdatedKeys == {"crs", "transform", "width", "height"}

\* dst_kwargs against the metadata of the source it was copied from
KwargsFrame(src, path, original) ==
    /\ DOMAIN env.dst_kwargs = DOMAIN original
    /\ \A k \in DOMAIN original \ UpdatedKeys : env.dst_kwargs[k] = original[k]
    /\ DatasetMeta(handles[src]) = original
    /\ files[path].meta = original

\* C1: on each of the three output files the operations are, in this order,
\* open for writing, reproject into it, close, and only then open for reading
\* (any number of times): no output file is opened for reading before its
\* write-mode connection is closed.
C1_WriteReprojectCloseThenRead ==
    \A p \in OutputPaths :
        LET ops == OpsOn(trace, p)
        IN  \A i \in DOMAIN ops :
                ops[i] = IF i = 1 THEN "open_w"
                         ELSE IF i = 2 THEN "reproject"
                         ELSE IF i = 3 THEN "close"
                         ELSE "open_r"

\* the run is over and every output file was written, closed and then read
C1_Witness ==
    /\ chapter = "reproj" /\ pc = "done"
    /\ \A p \in OutputPaths : Len(OpsOn(trace, p)) >= 4

C4_DstKwargsFrame ==
    /\ (chapter = "reproj" /\ pc = "open_dst_nlcd") =>
          /\ KwargsFrame(env.src_nlcd, "data/nlcd.tif", NlcdMeta)
          /\ env.dst_kwargs.nodata = 255
    /\ (chapter = "reproj" /\ pc = "open_dst_srtm") =>
          KwargsFrame(env.src_srtm, "data/srtm.tif", SrtmMeta)

\* dst_kwargs of the srtm workflow is built, and differs from the source's .meta
C4_Witness ==
    /\ chapter = "reproj" /\ pc = "open_dst_srtm"
    /\ env.dst_kwargs # SrtmMeta
    /\ env.dst_kwargs.crs = CrsString(32612)

(***************************************************************************)
(* Properties of the attribute chapter.                                    *)
(***************************************************************************)
\* the cell has been run (and did not raise)
RanA(cell) ==
    /\ chapter = "attr"
    /\ pc \in Range(AttrCells)
    /\ IndexOf(AttrCells, pc) > IndexOf(AttrCells, cell)

\* the columns of a joined row that come from world
WorldPart(row) == SubSeq(row, 1, Len(WorldColumns))

\* the columns of a joined row that come from coffee_data
CoffeePart(row) == SubSeq(row, Len(WorldColumns) + 1, Len(row))

\* the rows of coffee_data whose name_long is that of row i of world
CoffeeMatches(i) ==
    {j \in 1..Len(tab.coffee_data.data) :
        Column(tab.coffee_data, "name_long")[j] = Column(tab.world, "name_long")[i]}

\* no name_long occurs twice in coffee_data
CoffeeKeysUnique ==
    \A j, k \in 1..Len(tab.coffee_data.data) :
        j # k => tab.coffee_data.data[j][1] # tab.coffee_data.data[k][1]

ContinentPop(g) == tab.world_agg3.data[IndexOf(tab.world_agg3.index, g)][3]

\* C7: the rows of world_agg4 are the three continents with the largest
\* summed pop (all of them if there are fewer than three).
C7_KeepsThreeMostPopulous ==
    RanA("world_agg4") =>
        LET all == Range(tab.world_agg3.index)
            kept == Range(tab.world_agg4.index)
        IN  /\ Cardinality(kept) = IF Cardinality(all) < 3 THEN Cardinality(all) ELSE 3
            /\ \A k \in kept : \A o \in all \ kept : ContinentPop(k) >= ContinentPop(o)

\* C8: world.iloc[:, x] holds exactly the columns of world at the positions
\* where x is 1 (0, 1, 7 and 8), each once.
C8_IlocSelectsMaskedColumns ==
    RanA("iloc") =>
        tab.out_iloc.columns =
            <<tab.world.columns[1], tab.world.columns[2],
              tab.world.columns[8], tab.world.columns[9]>>

\* no continent and no region_un of world holds the separator
NoSeparatorInWorld ==
    \A i \in 1..Len(tab.world.data) :
        /\ ":" \notin Range(Column(tab.world, "continent")[i])
        /\ ":" \notin Range(Column(tab.world, "region_un")[i])

\* world2 holds, for every row, the continent and region_un of world
Restored ==
    /\ HasCol(tab.world2, "continent") /\ HasCol(tab.world2, "region_un")
    /\ Column(tab.world2, "continent") = Column(tab.world, "continent")
    /\ Column(tab.world2, "region_un") = Column(tab.world, "region_un")

\* the split cell has just been executed, whether or not it raised
SplitExecuted == chapter = "attr" /\ pc \in {After(AttrCells, "split"), "raised"}

RanG(cell) == chapter = "geom" /\ IndexOf(GeomCells, pc) > IndexOf(GeomCells, cell)

\* the geometries of the us_states rows whose REGION is r, in row order
GeometriesOf(r) ==
    Take(Column(tab.us_states, "geometry"),
         SeqOfSet({i \in 1..Len(tab.us_states.data) :
                     Column(tab.us_states, "REGION")[i] = r}))

OpenConnections(mode) ==
    {i \in DOMAIN handles : handles[i].mode = mode /\ ~handles[i].closed}

\* how many times the operation was done on the path so far
CountOps(op, path) ==
    Cardinality({i \in DOMAIN trace : trace[i].op = op /\ trace[i].path = path})

\* C12: in a run of the reprojection chapter at most one write-mode
\* connection is open at any time, no output path is opened in write mode or
\* closed more than once, at the end of the run each output path has been
\* opened in write mode once and closed once with no write-mode connection
\* left open, and no path ever has an open write-mode connection together
\* with an open read-mode connection.
C12_WriteConnectionsExclusive ==
    chapter = "reproj" =>
        /\ Cardinality(OpenConnections("w")) <= 1
        /\ \A p \in OutputPaths :
             /\ CountOps("open_w", p) <= 1
             /\ CountOps("close", p) <= CountOps("open_w", p)
             /\ CountOps("open_w", p) =
                  Cardinality({i \in DOMAIN handles :
                                 handles[i].mode = "w" /\ handles[i].path = p})
             /\ CountOps("close", p) =
                  Cardinality({i \in DOMAIN handles :
                                 handles[i].mode = "w" /\ handles[i].path = p
                                 /\ handles[i].closed})
        /\ \A p \in Paths \ OutputPaths : CountOps("open_w", p) = 0
        /\ pc = "done" =>
             /\ OpenConnections("w") = {}
             /\ \A p \in OutputPaths :
                  CountOps("open_w", p) = 1 /\ CountOps("close", p) = 1
        /\ \A w \in OpenConnections("w"), r \in OpenConnections("r") :
             handles[w].path # handles[r].path

\* the second write-mode connection is open while the first output file,
\* written and closed, is open for reading
C12_Witness ==
    /\ chapter = "reproj"
    /\ \E w \in OpenConnections("w") :
         /\ handles[w].path = "output/nlcd_4326_2.tif"
         /\ CountOps("reproject", "output/nlcd_4326_2.tif") = 1
    /\ CountOps("close", "output/nlcd_4326.tif") = 1
    /\ \E r \in OpenConnections("r") : handles[r].path = "output/nlcd_4326.tif"

(***************************************************************************)
(* The sample data of the attribute chapter.                               *)
(***************************************************************************)
\* C13: whenever rasterio.open('data/landsat.tif') has been executed, the
\* file on disk is the complete download, whatever runs of the sample-data
\* cell came before.
C13_LandsatOpenedOnlyWhenComplete ==
    (chapter = "attr" /\ CountOps("open_r", "data/landsat.tif") > 0) =>
        files["data/landsat.tif"] = ElevFile

(***************************************************************************)
(* Names.                                                                  *)
(***************************************************************************)
\* C14: in a top-to-bottom run of any of the documents no cell reads a name
\* that no earlier statement has bound (no run ends in NameError): the cell
\* about to run finds every name it reads in the kernel's namespace.
C14_NamesBoundBeforeRead ==
    chapter = "names" =>
        /\ pc # "NameError"
        /\ pc = "cell" => CellNames(kernel.doc)[kernel.next].reads \subseteq kernel.names

\* the geometry chapter is about to run the cell of pd.concat([us_west, texas]),
\* which reads pd, bound by the first cell
C14_Witness ==
    /\ chapter = "names" /\ pc = "cell"
    /\ kernel.doc = "geom_notebook"
    /\ {"pd", "us_west", "texas"} \subseteq CellNames(kernel.doc)[kernel.next].reads
                                             \cup CellNames(kernel.doc)[kernel.next].binds
    /\ "pd" \in CellNames(kernel.doc)[kernel.next].reads
    /\ "pd" \in kernel.names
====
